---------------------------- MODULE Spec2Model ----------------------------
(***************************************************************************)
(* Model of the soil-monitoring dashboard in app.py: the three acquisition *)
(* adapters behind get_sensor_data, the feature vector and the majority    *)
(* vote of run_dashboard_cycle, and the 30-entry trend history kept in the *)
(* session state.                                                          *)
(*                                                                         *)
(* Numbers: every sensor value is a fixed-point integer in hundredths      *)
(* (28.5 is 2850).  Raw uniform draws of the simulator are in thousandths, *)
(* so that round() has something to round.  Strings that the code parses   *)
(* are sequences of one-character strings.                                 *)
(***************************************************************************)
EXTENDS Integers, Sequences, FiniteSets, TLC

VARIABLES
    resources,    \* "loaded" or "None": what load_resources returned at startup
    mode,         \* the Operation Mode of the last call ("" before the first)
    env,          \* what the outside world answered in the last call
    sensor_vals,  \* outcome of the last get_sensor_data call
    msgs,         \* st.error / st.warning messages of the last call
    adapter,      \* the branch of get_sensor_data that ran in the last call
    serial,       \* serial handle after the last call: "none", "open", "closed"
    metrics,      \* the Live Metrics Row rendered by the last cycle
    input_data,   \* the vector handed to scaler.transform in the last cycle
    votes,        \* [rf_pred, xgb_pred, svm_pred] of the last cycle
    consensus,    \* the FINAL CONSENSUS of the last cycle ("" when none)
    history,      \* st.session_state.history
    clock,        \* wall clock, in seconds
    cycles,       \* number of dashboard cycles run so far
    deviations    \* number of cycles so far whose environment was not nominal

vars == <<resources, mode, env, sensor_vals, msgs, adapter, serial, metrics,
          input_data, votes, consensus, history, clock, cycles, deviations>>

---------------------------------------------------------------------------
(* Bounds of the model *)

\* cycles of the long-running dashboard specification (must pass HistoryCap)
MaxCycles == 33
\* cycles of the specifications that probe one cycle's inputs in breadth
MaxProbeCycles == 2
\* cycles of the specification that probes the inference step over all votes
MaxInferCycles == 1
\* cycles of the long run whose environment may differ from the nominal one
MaxDeviations == 1

---------------------------------------------------------------------------
(* Data model *)

Fields ==
    <<"Temperature", "Moisture", "Nitrogen", "Phosphorus", "Potassium", "pH", "Humidity">>

FieldSet == {Fields[i] : i \in 1..Len(Fields)}

\* the data dict as get_sensor_data creates it
ZeroReading == [f \in FieldSet |-> 0]

\* the options of the Operation Mode radio
Modes == {"Simulation Mode", "Live Sensor Mode", "ThingSpeak Cloud"}

\* the options of the field-mapping select boxes: field1 .. field8
FieldIds == {"field1", "field2", "field3", "field4", "field5", "field6", "field7", "field8"}

\* the default selection of the seven select boxes (index 0 .. 6)
DefaultMapping ==
    [f \in FieldSet |->
        CASE f = "Temperature" -> "field1"
          [] f = "Moisture"    -> "field2"
          [] f = "Nitrogen"    -> "field3"
          [] f = "Phosphorus"  -> "field4"
          [] f = "Potassium"   -> "field5"
          [] f = "pH"          -> "field6"
          [] f = "Humidity"    -> "field7"]

\* classes_ of the label encoder: inverse_transform maps code c to EncoderClasses[c + 1]
EncoderClasses == <<"Deficient", "Excess", "Healthy">>

inverse_transform(code) == EncoderClasses[code + 1]

\* "Keep last 30"
HistoryCap == 30

\* messages of get_sensor_data
ThingSpeakError == "ThingSpeak Error"
ChannelEmptyWarning == "ThingSpeak connected, but channel is empty."
DriverMissingError == "'minimalmodbus' library not found."
SensorConnectionError == "Sensor Connection Error"

---------------------------------------------------------------------------
(* Conversions *)

Digits == {"0", "1", "2", "3", "4", "5", "6", "7", "8", "9"}

DigitVal(c) ==
    CASE c = "0" -> 0 [] c = "1" -> 1 [] c = "2" -> 2 [] c = "3" -> 3 [] c = "4" -> 4
      [] c = "5" -> 5 [] c = "6" -> 6 [] c = "7" -> 7 [] c = "8" -> 8 [] c = "9" -> 9

RECURSIVE DigitsValue(_)
DigitsValue(s) ==
    IF s = <<>> THEN 0
    ELSE 10 * DigitsValue(SubSeq(s, 1, Len(s) - 1)) + DigitVal(s[Len(s)])

\* float(s) of a string of digits with at most one decimal point: the value in
\* hundredths, or a ValueError.  (Signs, exponents, blanks, "nan" and "inf", which
\* float() also takes, are outside the alphabet the model's samples use; fraction
\* digits past the second are below the model's resolution and are dropped.)
ParseFloat(s) ==
    LET dots  == {i \in 1..Len(s) : s[i] = "."}
        valid == /\ \A i \in 1..Len(s) : s[i] \in Digits \cup {"."}
                 /\ Cardinality(dots) <= 1
                 /\ \E i \in 1..Len(s) : s[i] \in Digits
        point == IF dots = {} THEN Len(s) + 1 ELSE CHOOSE i \in dots : TRUE
        whole == SubSeq(s, 1, point - 1)
        frac  == SubSeq(s, point + 1, Len(s))
        d1    == IF Len(frac) >= 1 THEN DigitVal(frac[1]) ELSE 0
        d2    == IF Len(frac) >= 2 THEN DigitVal(frac[2]) ELSE 0
    IN  IF valid THEN [ok |-> TRUE, val |-> 100 * DigitsValue(whole) + 10 * d1 + d2]
        ELSE [ok |-> FALSE, val |-> 0]

\* A JSON value of a ThingSpeak sample, as latest.get(key) sees it: the key is
\* absent, the value is null, or it is a string.
Absent == [t |-> "absent", s |-> <<>>]
Null == [t |-> "null", s |-> <<>>]
Str(s) == [t |-> "str", s |-> s]

\* Python truthiness of latest.get(key): None and "" are falsy
Truthy(v) == v.t = "str" /\ v.s # <<>>

\* float(latest.get(key) or 0)
FloatOrZero(v) ==
    IF Truthy(v) THEN ParseFloat(v.s) ELSE [ok |-> TRUE, val |-> 0]

\* round(x, ndigits) of a draw x in thousandths, ndigits in 0..2, ties to even;
\* the result in hundredths
Round(x, ndigits) ==
    LET unit == CASE ndigits = 0 -> 1000 [] ndigits = 1 -> 100 [] ndigits = 2 -> 10
        q    == x \div unit
        r    == x % unit
        up   == (2 * r > unit) \/ (2 * r = unit /\ q % 2 = 1)
    IN  ((IF up THEN q + 1 ELSE q) * unit) \div 10

\* instrument.read_register(address, number_of_decimals): the raw 16-bit register
\* divided by 10^decimals, in hundredths
ScaleRegister(raw, decimals) ==
    IF decimals = 1 THEN raw * 10 ELSE raw * 100

\* time.strftime("%H:%M:%S") at wall-clock second t
Strftime(t) == <<(t \div 3600) % 24, (t \div 60) % 60, t % 60>>

---------------------------------------------------------------------------
(* get_sensor_data and its three adapters.                                 *)
(* The environment e of one call is a record:                              *)
(*   draw       the seven random.uniform draws, in thousandths             *)
(*   http       "ok", "status" (raise_for_status raises) or "timeout"      *)
(*   body       "json" (a payload with a feeds array), "no_feeds" (a JSON  *)
(*              object without the key) or "bad_json" (json() raises)      *)
(*   feeds      the feeds array: samples [created_at, fields]              *)
(*   mapping    ts_mapping, a function from canonical fields to field ids  *)
(*   fault      Live mode: "none", "import", "open", "config" or "read"    *)
(*   faultAt    the register offset whose read raises when fault = "read"  *)
(*   regs       the seven raw registers                                    *)
(*   closeFault serial.close() raises                                      *)
(*   codes      the class codes predicted by rf, xgb and svm               *)
(* The result is [kind, data, msgs, adapter, serial]; kind is "data" (a    *)
(* Reading was returned), "none" (None was returned) or "raised" (an       *)
(* exception left get_sensor_data).                                        *)

Returned(name, data) ==
    [kind |-> "data", data |-> data, msgs |-> {}, adapter |-> name, serial |-> "none"]

Failed(name, msg) ==
    [kind |-> "none", data |-> ZeroReading, msgs |-> {msg}, adapter |-> name, serial |-> "none"]

\* mode == "Simulation Mode"
SimulatedAdapter(e) ==
    Returned("Simulated",
        [f \in FieldSet |->
            CASE f = "Temperature" -> Round(e.draw[f], 1)
              [] f = "Moisture"    -> Round(e.draw[f], 1)
              [] f = "Nitrogen"    -> Round(e.draw[f], 0)
              [] f = "Phosphorus"  -> Round(e.draw[f], 0)
              [] f = "Potassium"   -> Round(e.draw[f], 0)
              [] f = "pH"          -> Round(e.draw[f], 2)
              [] f = "Humidity"    -> Round(e.draw[f], 1)])

\* latest.get(key)
Get(latest, key) ==
    IF key \in DOMAIN latest.fields THEN latest.fields[key] ELSE Absent

\* the branch "if feed['feeds']:" with latest = feed['feeds'][-1]
MapSample(latest, mapping) ==
    IF ~latest.created_at
    THEN Failed("Cloud", ThingSpeakError)                \* KeyError: 'created_at'
    ELSE IF DOMAIN mapping # {}
    THEN IF \E f \in FieldSet : f \notin DOMAIN mapping
         THEN Failed("Cloud", ThingSpeakError)           \* KeyError: mapping[f]
         ELSE IF \E f \in FieldSet : ~FloatOrZero(Get(latest, mapping[f])).ok
         THEN Failed("Cloud", ThingSpeakError)           \* ValueError of float()
         ELSE Returned("Cloud",
                  [f \in FieldSet |-> FloatOrZero(Get(latest, mapping[f])).val])
    ELSE \* "Fallback default": only Temperature is read
         IF ~FloatOrZero(Get(latest, "field1")).ok
         THEN Failed("Cloud", ThingSpeakError)
         ELSE Returned("Cloud",
                  [ZeroReading EXCEPT !["Temperature"] = FloatOrZero(Get(latest, "field1")).val])

\* a mutant of EmptyFeed: the untouched all-zero data dict is returned
EmptyFeed_zeroed ==
    Returned("Cloud", ZeroReading)

\* the branch "else:" of "if feed['feeds']:"
EmptyFeed ==
    Failed("Cloud", ChannelEmptyWarning)

\* mode == "ThingSpeak Cloud"
CloudAdapter(e) ==
    IF e.http # "ok" THEN Failed("Cloud", ThingSpeakError)   \* requests.get / raise_for_status
    ELSE IF e.body # "json" THEN Failed("Cloud", ThingSpeakError) \* json() or feed['feeds']
    ELSE IF e.feeds # <<>> THEN MapSample(e.feeds[Len(e.feeds)], e.mapping)
    ELSE EmptyFeed

\* the seven read_register calls at offsets 0..6
ReadRegisters(regs) ==
    [f \in FieldSet |->
        CASE f = "Temperature" -> ScaleRegister(regs[1], 1)
          [] f = "Moisture"    -> ScaleRegister(regs[2], 1)
          [] f = "Nitrogen"    -> ScaleRegister(regs[3], 0)
          [] f = "Phosphorus"  -> ScaleRegister(regs[4], 0)
          [] f = "Potassium"   -> ScaleRegister(regs[5], 0)
          [] f = "pH"          -> ScaleRegister(regs[6], 1)
          [] f = "Humidity"    -> ScaleRegister(regs[7], 1)]

\* the try block with its two except clauses, before the finally clause runs;
\* serial is "open" once minimalmodbus.Instrument(...) has returned
LiveTry(e) ==
    CASE e.fault = "import" -> Failed("Register", DriverMissingError)
      [] e.fault = "open"   -> Failed("Register", SensorConnectionError)
      [] e.fault = "config" -> [Failed("Register", SensorConnectionError) EXCEPT !.serial = "open"]
      [] e.fault = "read"   -> [Failed("Register", SensorConnectionError) EXCEPT !.serial = "open"]
      [] OTHER              -> [Returned("Register", ReadRegisters(e.regs)) EXCEPT !.serial = "open"]

\* a mutant of LiveFinally: the handle is closed after the last read only,
\* not in a finally clause
LiveFinally_successonly(r, e) ==
    IF r.serial = "open" /\ r.kind = "data"
    THEN IF e.closeFault THEN [r EXCEPT !.kind = "raised", !.data = ZeroReading]
         ELSE [r EXCEPT !.serial = "closed"]
    ELSE r

\* finally: if instrument and instrument.serial: instrument.serial.close().
\* A close() that raises replaces the pending return by the exception and
\* leaves the handle as it was.
LiveFinally(r, e) ==
    IF r.serial = "open"
    THEN IF e.closeFault THEN [r EXCEPT !.kind = "raised", !.data = ZeroReading]
         ELSE [r EXCEPT !.serial = "closed"]
    ELSE r

\* mode == "Live Sensor Mode"
LiveAdapter(e) == LiveFinally(LiveTry(e), e)

\* the if / elif / elif chain; a mode that matches none falls off the end of
\* the function, which returns None
get_sensor_data(m, e) ==
    IF m = "Simulation Mode" THEN SimulatedAdapter(e)
    ELSE IF m = "ThingSpeak Cloud" THEN CloudAdapter(e)
    ELSE IF m = "Live Sensor Mode" THEN LiveAdapter(e)
    ELSE [kind |-> "none", data |-> ZeroReading, msgs |-> {}, adapter |-> "none",
          serial |-> "none"]

---------------------------------------------------------------------------
(* Startup *)

Artifacts == {"rf", "xgb", "svm", "scaler", "encoder"}

\* load_resources: the five joblib.load calls in one try block; loadable[a]
\* tells whether artifact a loads without raising
load_resources(loadable) ==
    IF \A a \in Artifacts : loadable[a] THEN "loaded" ELSE "None"

---------------------------------------------------------------------------
(* One dashboard cycle *)

\* the seven entries of the Live Metrics Row
Metrics(sv) ==
    [i \in 1..Len(Fields) |->
        [label |-> Fields[i],
         value |-> sv[Fields[i]],
         unit  |-> CASE Fields[i] \in {"Temperature"} -> "C"
                     [] Fields[i] \in {"Moisture", "Humidity"} -> "%"
                     [] Fields[i] \in {"Nitrogen", "Phosphorus", "Potassium"} -> "mg/kg"
                     [] OTHER -> ""]]

\* a mutant of InputData: Humidity takes the place of pH
InputData_humidity(sv) ==
    <<sv["Temperature"], sv["Moisture"], sv["Nitrogen"], sv["Phosphorus"],
      sv["Potassium"], sv["Humidity"]>>

\* input_data = np.array([[Temperature, Moisture, Nitrogen, Phosphorus, Potassium, pH]])
InputData(sv) ==
    <<sv["Temperature"], sv["Moisture"], sv["Nitrogen"], sv["Phosphorus"],
      sv["Potassium"], sv["pH"]>>

\* votes = [rf_pred, xgb_pred, svm_pred], each code decoded by the encoder
Votes(codes) ==
    <<inverse_transform(codes[1]), inverse_transform(codes[2]), inverse_transform(codes[3])>>

\* Counter(votes): the distinct elements in the order of their first
\* occurrence (a dict keeps insertion order), each with its count
Counter(seq) ==
    LET first == {i \in 1..Len(seq) : \A j \in 1..(i - 1) : seq[j] # seq[i]}
        nth(k) == CHOOSE i \in first : Cardinality({j \in first : j < i}) = k - 1
    IN  [k \in 1..Cardinality(first) |->
            [elem  |-> seq[nth(k)],
             count |-> Cardinality({j \in 1..Len(seq) : seq[j] = seq[nth(k)]})]]

\* a mutant of most_common1: among equal counts the last element wins
most_common1_last(items) ==
    LET best == CHOOSE i \in 1..Len(items) :
                    /\ \A j \in 1..Len(items) : items[j].count <= items[i].count
                    /\ \A j \in (i + 1)..Len(items) : items[j].count < items[i].count
    IN  items[best]

\* most_common(1)[0]: max() over the items by count, which keeps the first of
\* the items with the greatest count
most_common1(items) ==
    LET best == CHOOSE i \in 1..Len(items) :
                    /\ \A j \in 1..Len(items) : items[j].count <= items[i].count
                    /\ \A j \in 1..(i - 1) : items[j].count < items[i].count
    IN  items[best]

\* consensus = Counter(votes).most_common(1)[0][0]
Consensus(v) == most_common1(Counter(v)).elem

EmptyHistory == [N |-> <<>>, P |-> <<>>, pH |-> <<>>, time |-> <<>>]

\* the four appends of "Update history"
AppendHistory(h, sv, t) ==
    [N    |-> Append(h.N, sv["Nitrogen"]),
     P    |-> Append(h.P, sv["Phosphorus"]),
     pH   |-> Append(h.pH, sv["pH"]),
     time |-> Append(h.time, Strftime(t))]

\* a mutant of TrimHistory: pop() instead of pop(0)
TrimHistory_poplast(h) ==
    IF Len(h.time) > HistoryCap
    THEN [k \in DOMAIN h |-> SubSeq(h[k], 1, Len(h[k]) - 1)]
    ELSE h

\* "Keep last 30": if len(history['time']) > 30, pop(0) from every series
TrimHistory(h) ==
    IF Len(h.time) > HistoryCap
    THEN [k \in DOMAIN h |-> Tail(h[k])]
    ELSE h

\* a mutant of Inferring: the cycle goes on without a Reading
Inferring_always(r) == resources = "loaded"

\* "if sensor_vals and resources:"
Inferring(r) == r.kind = "data" /\ resources = "loaded"

\* run_dashboard_cycle with the sidebar set to mode m, the outside world
\* answering e.  An exception that leaves get_sensor_data ends the cycle there.
run_dashboard_cycle(m, e) ==
    \E r \in {get_sensor_data(m, e)} :
    /\ mode' = m
    /\ env' = e
    /\ sensor_vals' = [kind |-> r.kind, data |-> r.data]
    /\ msgs' = r.msgs
    /\ adapter' = r.adapter
    /\ serial' = r.serial
    /\ clock' = clock + 1
    /\ cycles' = cycles + 1
    /\ IF r.kind # "raised" /\ Inferring(r)
       THEN /\ metrics' = Metrics(r.data)
            /\ input_data' = InputData(r.data)
            /\ votes' = Votes(e.codes)
            /\ consensus' = Consensus(Votes(e.codes))
            /\ history' = TrimHistory(AppendHistory(history, r.data, clock))
       ELSE /\ metrics' = <<>>
            /\ input_data' = <<>>
            /\ votes' = <<>>
            /\ consensus' = ""
            /\ history' = history
    /\ UNCHANGED resources

\* get_sensor_data called on its own, with any mode string
DirectCall(m, e) ==
    \E r \in {get_sensor_data(m, e)} :
    /\ mode' = m
    /\ env' = e
    /\ sensor_vals' = [kind |-> r.kind, data |-> r.data]
    /\ msgs' = r.msgs
    /\ adapter' = r.adapter
    /\ serial' = r.serial
    /\ UNCHANGED <<resources, metrics, input_data, votes, consensus, history,
                   clock, cycles, deviations>>

---------------------------------------------------------------------------
(* Environments *)

\* bounds of random.uniform per field, in thousandths
SimLo ==
    [f \in FieldSet |->
        CASE f = "Temperature" -> 22000 [] f = "Moisture" -> 40000
          [] f = "Nitrogen" -> 100000   [] f = "Phosphorus" -> 10000
          [] f = "Potassium" -> 150000  [] f = "pH" -> 5500
          [] f = "Humidity" -> 60000]

SimHi ==
    [f \in FieldSet |->
        CASE f = "Temperature" -> 35000 [] f = "Moisture" -> 80000
          [] f = "Nitrogen" -> 250000   [] f = "Phosphorus" -> 60000
          [] f = "Potassium" -> 300000  [] f = "pH" -> 7500
          [] f = "Humidity" -> 90000]

\* the reading 28.5, 55, 180, 40, 220, 6.2, 70 as a draw, as a sample and as registers
NominalDraw ==
    [f \in FieldSet |->
        CASE f = "Temperature" -> 28500 [] f = "Moisture" -> 55000
          [] f = "Nitrogen" -> 180000   [] f = "Phosphorus" -> 40000
          [] f = "Potassium" -> 220000  [] f = "pH" -> 6200
          [] f = "Humidity" -> 70000]

\* a draw whose digits round() has to cut, with ties at Nitrogen and pH
FineDraw ==
    [f \in FieldSet |->
        CASE f = "Temperature" -> 28449 [] f = "Moisture" -> 55250
          [] f = "Nitrogen" -> 180500   [] f = "Phosphorus" -> 40499
          [] f = "Potassium" -> 221500  [] f = "pH" -> 6125
          [] f = "Humidity" -> 70051]

\* the lowest draw, the highest, each field alone at its highest, and the two above
SimDraws ==
    {SimLo, SimHi, NominalDraw, FineDraw}
    \cup {[SimLo EXCEPT ![f] = SimHi[f]] : f \in FieldSet}

NominalFields ==
    [k \in FieldIds \ {"field8"} |->
        CASE k = "field1" -> Str(<<"2", "8", ".", "5">>)
          [] k = "field2" -> Str(<<"5", "5">>)
          [] k = "field3" -> Str(<<"1", "8", "0">>)
          [] k = "field4" -> Str(<<"4", "0">>)
          [] k = "field5" -> Str(<<"2", "2", "0">>)
          [] k = "field6" -> Str(<<"6", ".", "2">>)
          [] k = "field7" -> Str(<<"7", "0">>)]

NominalSample == [created_at |-> TRUE, fields |-> NominalFields]

\* an older sample, for a feeds array of two
OlderSample ==
    [created_at |-> TRUE, fields |-> [k \in FieldIds \ {"field8"} |-> Str(<<"1">>)]]

\* what one field of a sample may hold instead of its number
OddValues == {Null, Str(<<>>), Str(<<"0">>), Str(<<"N", "/", "A">>), Str(<<"1", ".", "2", ".", "3">>)}

Samples ==
    {NominalSample, [NominalSample EXCEPT !.created_at = FALSE]}
    \cup {[NominalSample EXCEPT !.fields[k] = v] : k \in FieldIds \ {"field8"}, v \in OddValues}
    \cup {[NominalSample EXCEPT !.fields = [k \in {"field1", "field2"} |-> NominalFields[k]]]}

\* a mapping that reads Humidity from field8, which the samples do not carry
Field8Mapping == [DefaultMapping EXCEPT !["Humidity"] = "field8"]

NominalRegs == <<285, 550, 180, 40, 220, 62, 700>>
OtherRegs == <<301, 412, 95, 12, 160, 71, 655>>

Codes == 0..(Len(EncoderClasses) - 1)

\* every source answers with the nominal reading; all three models say Healthy
BaseEnv ==
    [draw |-> NominalDraw, http |-> "ok", body |-> "json", feeds |-> <<NominalSample>>,
     mapping |-> DefaultMapping, fault |-> "none", faultAt |-> 0, regs |-> NominalRegs,
     closeFault |-> FALSE, codes |-> <<2, 2, 2>>]

\* the long run: the nominal environment, one where every source answers with
\* another reading, and one where the cloud feed is empty and a register read fails
TrendEnvs ==
    {BaseEnv,
     [BaseEnv EXCEPT !.draw = SimHi, !.regs = OtherRegs, !.feeds = <<OlderSample>>],
     [BaseEnv EXCEPT !.feeds = <<>>, !.fault = "read", !.faultAt = 3]}

InferEnvs ==
    {[BaseEnv EXCEPT !.draw = d, !.codes = <<c1, c2, c3>>] :
        d \in SimDraws, c1 \in Codes, c2 \in Codes, c3 \in Codes}

CloudEnvs ==
    {[BaseEnv EXCEPT !.http = h] : h \in {"status", "timeout"}}
    \cup {[BaseEnv EXCEPT !.body = b] : b \in {"no_feeds", "bad_json"}}
    \cup {[BaseEnv EXCEPT !.feeds = fs, !.mapping = mp] :
            fs \in {<<>>} \cup {<<s>> : s \in Samples} \cup {<<OlderSample, s>> : s \in Samples},
            mp \in {DefaultMapping, Field8Mapping}}

LiveFaults ==
    {[fault |-> k, faultAt |-> 0] : k \in {"none", "import", "open", "config"}}
    \cup {[fault |-> "read", faultAt |-> a] : a \in 0..6}

LiveEnvs ==
    {[BaseEnv EXCEPT !.fault = fl.fault, !.faultAt = fl.faultAt, !.regs = rg, !.closeFault = cf] :
        fl \in LiveFaults, rg \in {NominalRegs, OtherRegs}, cf \in BOOLEAN}

\* mode strings handed to get_sensor_data: the three of the radio and one other
ModeValues == Modes \cup {"Manual Mode"}

DispatchEnvs ==
    {[BaseEnv EXCEPT !.draw = d] : d \in {SimLo, SimHi, FineDraw}}
    \cup {[BaseEnv EXCEPT !.feeds = fs] : fs \in {<<>>, <<OlderSample>>}}
    \cup {[BaseEnv EXCEPT !.http = "status"]}
    \cup {[BaseEnv EXCEPT !.fault = fl.fault, !.faultAt = fl.faultAt, !.closeFault = cf] :
            fl \in LiveFaults, cf \in BOOLEAN}

\* the wall clock when the session starts: ten seconds before midnight, so that
\* the timestamps of a run wrap around
StartTimes == {24 * 3600 - 10}

---------------------------------------------------------------------------
(* Specifications *)

Init ==
    /\ resources \in {load_resources(l) : l \in [Artifacts -> BOOLEAN]}
    /\ mode = ""
    /\ env = BaseEnv
    /\ sensor_vals = [kind |-> "unset", data |-> ZeroReading]
    /\ msgs = {}
    /\ adapter = "none"
    /\ serial = "none"
    /\ metrics = <<>>
    /\ input_data = <<>>
    /\ votes = <<>>
    /\ consensus = ""
    /\ history = EmptyHistory
    /\ clock \in StartTimes
    /\ cycles = 0
    /\ deviations = 0

\* a cycle of the long run in mode m
TrendCycle(m) ==
    \E e \in TrendEnvs :
        /\ cycles < MaxCycles
        /\ e = BaseEnv \/ deviations < MaxDeviations
        /\ run_dashboard_cycle(m, e)
        /\ deviations' = IF e = BaseEnv THEN deviations ELSE deviations + 1

CycleSimulation == TrendCycle("Simulation Mode")
CycleCloud == TrendCycle("ThingSpeak Cloud")
CycleLive == TrendCycle("Live Sensor Mode")

\* the dashboard over many cycles, the mode free at every cycle
Next == CycleSimulation \/ CycleCloud \/ CycleLive

Spec == Init /\ [][Next]_vars

\* a few cycles over all votes: Simulation Mode over many draws, the other two
\* modes (which draw nothing) with their nominal answer
NextInfer ==
    \E m \in Modes, e \in InferEnvs :
        /\ cycles < MaxInferCycles
        /\ m = "Simulation Mode" \/ e.draw = NominalDraw
        /\ run_dashboard_cycle(m, e)
        /\ UNCHANGED deviations

SpecInfer == Init /\ [][NextInfer]_vars

\* a few cycles in ThingSpeak Cloud mode over many payloads
NextCloud ==
    \E e \in CloudEnvs :
        /\ cycles < MaxProbeCycles
        /\ run_dashboard_cycle("ThingSpeak Cloud", e)
        /\ UNCHANGED deviations

SpecCloud == Init /\ [][NextCloud]_vars

\* a few cycles in Live Sensor Mode over every fault
NextLive ==
    \E e \in LiveEnvs :
        /\ cycles < MaxProbeCycles
        /\ run_dashboard_cycle("Live Sensor Mode", e)
        /\ UNCHANGED deviations

SpecLive == Init /\ [][NextLive]_vars

\* get_sensor_data as a function of its mode argument
NextDispatch ==
    \E m \in ModeValues, e \in DispatchEnvs : DirectCall(m, e)

SpecDispatch == Init /\ [][NextDispatch]_vars

---------------------------------------------------------------------------
(* Properties *)

\* the step is a dashboard cycle that appended to the history
Appended ==
    cycles' = cycles + 1 /\ sensor_vals'.kind = "data" /\ resources = "loaded"

\* C1: at the end of every cycle each series of the trend buffer holds at most
\* 30 entries, and a cycle that appends to a full buffer removes exactly the
\* oldest entry: the second-oldest becomes the oldest and the newest entry is
\* the one just appended.
C1_TrendBufferFifo ==
    [][/\ \A k \in DOMAIN history' : Len(history'[k]) <= HistoryCap
       /\ (Appended /\ Len(history.time) = HistoryCap) =>
            /\ history'.time = Append(Tail(history.time), Strftime(clock))
            /\ history'.N = Append(Tail(history.N), sensor_vals'.data["Nitrogen"])
            /\ history'.P = Append(Tail(history.P), sensor_vals'.data["Phosphorus"])
            /\ history'.pH = Append(Tail(history.pH), sensor_vals'.data["pH"])
            /\ history'.time[1] = history.time[2]
            /\ Len(history'.time) = HistoryCap]_vars

\* C1 witness: more than 30 cycles have appended, so the buffer is full and
\* its oldest entry has been evicted.
C1_Witness ==
    /\ resources = "loaded"
    /\ deviations = 0
    /\ cycles > HistoryCap
    /\ Len(history.time) = HistoryCap
    /\ history.time[HistoryCap] = Strftime(clock - 1)

\* C2: the consensus is the label with the most votes, ties going to the
\* first label in the order Random Forest, XGBoost, SVM: the common label when
\* two classifiers agree, the Random Forest label when all three differ.
C2_ConsensusMajorityFirst ==
    (sensor_vals.kind = "data" /\ resources = "loaded") =>
        /\ votes = <<inverse_transform(env.codes[1]), inverse_transform(env.codes[2]),
                     inverse_transform(env.codes[3])>>
        /\ consensus =
              IF votes[1] = votes[2] \/ votes[1] = votes[3] THEN votes[1]
              ELSE IF votes[2] = votes[3] THEN votes[2]
              ELSE votes[1]

\* C2 witness: three different labels, and the consensus is Random Forest's.
C2_Witness ==
    /\ Len(votes) = 3
    /\ votes[1] # votes[2] /\ votes[1] # votes[3] /\ votes[2] # votes[3]
    /\ consensus = votes[1]

\* the sample the Cloud adapter maps: the last element of a non-empty feeds
\* array that came with a 2xx response and carries its creation timestamp
SamplePresent ==
    /\ mode = "ThingSpeak Cloud"
    /\ env.http = "ok" /\ env.body = "json" /\ env.feeds # <<>>
    /\ env.feeds[Len(env.feeds)].created_at

\* the value the sample holds for canonical field f is absent, null, empty or
\* not a number
Unresolved(f) ==
    LET latest == env.feeds[Len(env.feeds)]
        key    == env.mapping[f]
        v      == IF key \in DOMAIN latest.fields THEN latest.fields[key] ELSE Absent
    IN  v.t # "str" \/ v.s = <<>> \/ ~ParseFloat(v.s).ok

\* C3 (as claimed): in ThingSpeak Cloud mode with a sample present, the Reading
\* is returned, and every field whose source is absent, null, empty or
\* non-numeric is 0.0 in it.
C3_UnresolvedFieldsDefaultToZero ==
    SamplePresent =>
        /\ sensor_vals.kind = "data"
        /\ \A f \in FieldSet : Unresolved(f) => sensor_vals.data[f] = 0

\* C4: in ThingSpeak Cloud mode a 2xx response whose feeds array is empty gives
\* no Reading (in particular not an all-zero Reading), and is reported by the
\* channel-empty warning, not by the error that a failed request is reported by.
C4_EmptyFeedIsDistinctFailure ==
    mode = "ThingSpeak Cloud" =>
        /\ (env.http = "ok" /\ env.body = "json" /\ env.feeds = <<>>) =>
              /\ sensor_vals.kind = "none"
              /\ msgs = {ChannelEmptyWarning}
              /\ ThingSpeakError \notin msgs
        /\ env.http # "ok" =>
              /\ sensor_vals.kind = "none"
              /\ msgs = {ThingSpeakError}

\* C4 witness: a cycle that got an empty feeds array.
C4_Witness ==
    /\ mode = "ThingSpeak Cloud"
    /\ env.http = "ok" /\ env.body = "json" /\ env.feeds = <<>>
    /\ sensor_vals.kind = "none"

\* C5: in Live Sensor Mode, whenever get_sensor_data returns after the
\* instrument was created (all reads succeeded, a read raised at any offset, or
\* configuring the port raised), the serial handle is closed; no call returns
\* with the handle open.
C5_SerialClosedOnReturn ==
    /\ (mode = "Live Sensor Mode" /\ env.fault \notin {"import", "open"}
          /\ sensor_vals.kind \in {"data", "none"}) => serial = "closed"
    /\ sensor_vals.kind \in {"data", "none"} => serial # "open"

\* C5 witness: the read at offset 3 raised, None was returned, the handle is closed.
C5_Witness ==
    /\ mode = "Live Sensor Mode"
    /\ env.fault = "read" /\ env.faultAt = 3
    /\ sensor_vals.kind = "none"
    /\ serial = "closed"

\* C6 (as claimed): when the classifier bundle failed to load, no cycle runs
\* inference, and a cycle whose acquisition succeeded still shows the seven
\* acquired values.
C6_ValuesReportedWithoutModels ==
    (resources = "None" /\ sensor_vals.kind = "data") =>
        /\ votes = <<>> /\ consensus = ""
        /\ metrics = Metrics(sensor_vals.data)

\* C7 (as claimed): each of the three modes runs its own adapter, and no mode
\* value makes get_sensor_data return without having run an adapter and
\* without reporting a failure.
C7_NoSilentFallthrough ==
    mode # "" =>
        /\ mode = "Simulation Mode" => adapter = "Simulated"
        /\ mode = "ThingSpeak Cloud" => adapter = "Cloud"
        /\ mode = "Live Sensor Mode" => adapter = "Register"
        /\ adapter # "none" \/ msgs # {}

\* C8 (as claimed): no fault, a fault of releasing the serial handle included,
\* lets an exception leave get_sensor_data: every call returns a Reading or None.
C8_NoExceptionEscapes ==
    mode # "" => sensor_vals.kind \in {"data", "none"}

\* C9: the vector handed to the scaler has exactly the 6 values Temperature,
\* Moisture, Nitrogen, Phosphorus, Potassium, pH of the Reading, in this
\* order and unchanged; Humidity is not part of it.
C9_FeatureVector ==
    (sensor_vals.kind = "data" /\ resources = "loaded") =>
        /\ Len(input_data) = 6
        /\ input_data[1] = sensor_vals.data["Temperature"]
        /\ input_data[2] = sensor_vals.data["Moisture"]
        /\ input_data[3] = sensor_vals.data["Nitrogen"]
        /\ input_data[4] = sensor_vals.data["Phosphorus"]
        /\ input_data[5] = sensor_vals.data["Potassium"]
        /\ input_data[6] = sensor_vals.data["pH"]

\* C9 witness: a simulated Reading at the top of every range went into the vector.
C9_Witness ==
    /\ mode = "Simulation Mode"
    /\ env.draw = SimHi
    /\ Len(input_data) = 6
    /\ sensor_vals.data["Humidity"] = 9000

\* C10: a cycle whose acquisition gives no Reading leaves all four series of
\* the trend buffer as they were, and after every cycle the four series have
\* the same length.
C10_FailedCycleKeepsHistory ==
    [][/\ (cycles' = cycles + 1 /\ sensor_vals'.kind # "data") => history' = history
       /\ \A k \in DOMAIN history' : Len(history'[k]) = Len(history'.time)]_vars

\* C10 witness: one cycle failed among cycles that appended, and the buffer
\* holds exactly the entries of the others.
C10_Witness ==
    /\ resources = "loaded"
    /\ sensor_vals.kind = "none"
    /\ cycles >= 2
    /\ Len(history.time) = cycles - 1

=============================================================================
